---- MODULE Spec2Model ----
(***************************************************************************)
(* Model of the dataset preparation pipeline of src/utils/data_loading.py  *)
(* (path building, loading, column rename, sentinel conversion, domain     *)
(* cleaning, identifier tagging, concatenation) and of its caller          *)
(* src/load_datasets.py.                                                   *)
(*                                                                         *)
(* A DataFrame is an object on a heap (pandas objects are mutable and      *)
(* passed by reference): heap[id] is the table the object id holds.  A     *)
(* table is a record of its column labels, its row labels (the index) and  *)
(* its rows.  Every function of the module is an operator that takes the   *)
(* heap and returns the heap it leaves behind together with what it        *)
(* returned or raised.                                                     *)
(***************************************************************************)
EXTENDS Integers, Sequences, FiniteSets, TLC

VARIABLES
    heap,           \* Seq(Table): the DataFrame objects, by object id
    before,         \* the heap as the caller built it, before its first call
    dataframes,     \* the caller's list of DataFrame ids
    col_names,      \* the caller's list of new column names
    dataset_names,  \* the caller's list of dataset names
    fs,             \* the files on disk: path -> lines, or NoFile
    files,          \* the caller's list of file names
    pc,             \* "start", or the function that ran last
    call,           \* the arguments of the last call
    ret             \* what the last call returned or raised

vars == <<heap, before, dataframes, col_names, dataset_names, fs, files, pc, call, ret>>

(***************************************************************************)
(* Bounds of the model.                                                    *)
(***************************************************************************)
MaxRows == 2
MaxTables == 2
MaxLines == 2
MaxFiles == 2

(***************************************************************************)
(* Cells.  A cell is a number, a text or the missing marker (np.nan).      *)
(***************************************************************************)
Num(n) == [t |-> "num", n |-> n, s |-> ""]
Str(s) == [t |-> "str", n |-> 0, s |-> s]
NaN == [t |-> "nan", n |-> 0, s |-> ""]

\* The literal the UCI files use for a missing entry.
Sentinel == Str("?")

Range(f) == {f[i] : i \in DOMAIN f}

\* pd.RangeIndex(n): the row labels 0..n-1.
RangeIndex(n) == [i \in 1..n |-> i - 1]

\* A DataFrame as its constructor builds it: a default RangeIndex.
DataFrame(columns, rows) ==
    [columns |-> columns, index |-> RangeIndex(Len(rows)), rows |-> rows]

Shape0(t) == Len(t.rows)
Shape1(t) == Len(t.columns)

(***************************************************************************)
(* What a call leaves behind: the heap, and a return value or an error.    *)
(***************************************************************************)
NoErr == [type |-> "", a |-> 0, b |-> 0, key |-> ""]

\* What a call hands back: kind is "ok" or "error"; df is the DataFrame returned
\* (0: none), dfs the list of DataFrames returned, err the exception raised,
\* printed the lines written to stdout, reads the paths given to pd.read_csv.

\* return a single DataFrame
Return(h, id) ==
    [heap |-> h, kind |-> "ok", df |-> id, dfs |-> <<>>, err |-> NoErr,
     printed |-> <<>>, reads |-> <<>>]

\* return a list of DataFrames (and, from prepare_cvd_datasets, the combined one)
ReturnList(h, ids, combined) ==
    [heap |-> h, kind |-> "ok", df |-> combined, dfs |-> ids, err |-> NoErr,
     printed |-> <<>>, reads |-> <<>>]

\* raise: nothing is returned
Raise(h, type, a, b, key) ==
    [heap |-> h, kind |-> "error", df |-> 0, dfs |-> <<>>,
     err |-> [type |-> type, a |-> a, b |-> b, key |-> key],
     printed |-> <<>>, reads |-> <<>>]

\* DataFrame.copy(): a new object holding the same table.
Copy(h, id) == Append(h, h[id])

(***************************************************************************)
(* convert_question_mark_to_nan: dataframe.replace("?", np.nan).           *)
(***************************************************************************)
\* A replace that also maps the value back to to_replace: replace({"?": nan, nan: "?"}).
ReplaceCell_swap(c, to_replace, value) ==
    IF c = to_replace THEN value ELSE IF c = value THEN to_replace ELSE c

\* DataFrame.replace on one cell: a cell equal to to_replace becomes value.
ReplaceCell(c, to_replace, value) == IF c = to_replace THEN value ELSE c

\* A replace that searches the first column only: dataframe[first].replace(...).
Replace_first_column(t, to_replace, value) ==
    [t EXCEPT !.rows = [r \in DOMAIN t.rows |->
        [c \in DOMAIN t.rows[r] |->
            IF c = 1 /\ t.rows[r][c] = to_replace THEN value ELSE t.rows[r][c]]]]

\* DataFrame.replace(to_replace, value): a new table, every column searched.
Replace(t, to_replace, value) ==
    [t EXCEPT !.rows = [r \in DOMAIN t.rows |->
        [c \in DOMAIN t.rows[r] |-> ReplaceCell(t.rows[r][c], to_replace, value)]]]

convert_question_mark_to_nan(h, id) ==
    LET modified_df == Replace(h[id], Sentinel, NaN)
    IN  Return(Append(h, modified_df), Len(h) + 1)

(***************************************************************************)
(* modify_column_names: positional rename, in place or on a copy.          *)
(***************************************************************************)
SetColumns(h, id, names) == [h EXCEPT ![id].columns = names]

\* The rename of src/helpers.py: a mismatch prints a message and returns the
\* table as it is.
modify_column_names_silent(h, id, names, inplace) ==
    IF Shape1(h[id]) # Len(names)
    THEN [Return(h, id) EXCEPT !.printed =
            <<"The number of column names passed does not equal the number of columns in the DataFrame.">>]
    ELSE IF inplace
         THEN Return(SetColumns(h, id, names), id)
         ELSE LET h1 == Copy(h, id)
              IN  Return(SetColumns(h1, Len(h1), names), Len(h1))

\* A rename whose copy branch assigns the names to dataframe, not to df_copy.
modify_column_names_wrong_object(h, id, names, inplace) ==
    IF Shape1(h[id]) # Len(names)
    THEN Raise(h, "ValueError", Shape1(h[id]), Len(names), "Column count mismatch")
    ELSE IF inplace
         THEN Return(SetColumns(h, id, names), id)
         ELSE LET h1 == Copy(h, id)
              IN  Return(SetColumns(h1, id, names), Len(h1))


modify_column_names(h, id, names, inplace) ==
    IF Shape1(h[id]) # Len(names)
    THEN Raise(h, "ValueError", Shape1(h[id]), Len(names), "Column count mismatch")
    ELSE IF inplace
         THEN Return(SetColumns(h, id, names), id)
         ELSE LET h1 == Copy(h, id)
              IN  Return(SetColumns(h1, Len(h1), names), Len(h1))

(***************************************************************************)
(* apply_domain_cleaning: the plausible ranges and the mask over them.     *)
(***************************************************************************)
range_checks ==
    << [col |-> "Age",     min_val |-> 0,  max_val |-> 120],
       [col |-> "Rest BP", min_val |-> 80, max_val |-> 250],
       [col |-> "Chol",    min_val |-> 50, max_val |-> 700],
       [col |-> "Max HR",  min_val |-> 60, max_val |-> 220],
       [col |-> "Oldpeak", min_val |-> 0,  max_val |-> 10] >>

HasColumn(t, col) == \E j \in DOMAIN t.columns : t.columns[j] = col

\* position of the (first) column labelled col
ColPos(t, col) ==
    CHOOSE j \in DOMAIN t.columns :
        t.columns[j] = col /\ \A k \in 1..(j - 1) : t.columns[k] # col

\* df[col]: the cells of the column, top to bottom
Column(t, col) == [r \in DOMAIN t.rows |-> t.rows[r][ColPos(t, col)]]

\* Series < v and Series > v raise TypeError on a text cell ('<' not supported
\* between instances of 'str' and 'int'); a missing cell compares False.
Comparable(series) == \A r \in DOMAIN series : series[r].t # "str"
Lt(c, v) == c.t = "num" /\ c.n < v
Gt(c, v) == c.t = "num" /\ c.n > v
NotNull(c) == c.t # "nan"

\* (df[col] < min_val) | (df[col] > max_val) & df[col].notnull(): & binds tighter
\* than |.  The mask over the rows of a comparable column.
out_of_range(t, col, min_val, max_val) ==
    [r \in DOMAIN t.rows |->
        LET c == Column(t, col)[r]
        IN  Lt(c, min_val) \/ (Gt(c, max_val) /\ NotNull(c))]

\* The loop over range_checks from entry k on: the first error it raises, or
\* NoErr when it runs to its end.  Each mask is computed and dropped.
RECURSIVE DomainLoop(_, _)
DomainLoop(t, k) ==
    IF k > Len(range_checks) THEN NoErr
    ELSE LET rc == range_checks[k]
         IN  IF ~HasColumn(t, rc.col)
             THEN [type |-> "KeyError", a |-> 0, b |-> 0, key |-> rc.col]
             ELSE IF ~Comparable(Column(t, rc.col))
             THEN [type |-> "TypeError", a |-> 0, b |-> 0, key |-> rc.col]
             ELSE LET mask == out_of_range(t, rc.col, rc.min_val, rc.max_val)
                  IN  DomainLoop(t, k + 1)

apply_domain_cleaning(h, id) ==
    LET h1 == Copy(h, id)
        df_copy == Len(h1)
        e == DomainLoop(h1[df_copy], 1)
    IN  IF e.type # ""
        THEN Raise(h1, e.type, e.a, e.b, e.key)
        ELSE Return(h1, df_copy)

(***************************************************************************)
(* modify_datataset: copy, rename, sentinel conversion, domain cleaning.   *)
(***************************************************************************)
\* A modify_datataset without its first copy, renaming in place.
modify_datataset_inplace(h, id, column_names) ==
    LET r1 == modify_column_names(h, id, column_names, TRUE)
    IN  IF r1.kind = "error" THEN r1
        ELSE LET r2 == convert_question_mark_to_nan(r1.heap, r1.df)
             IN  apply_domain_cleaning(r2.heap, r2.df)


modify_datataset(h, id, column_names) ==
    LET h1 == Copy(h, id)
        r1 == modify_column_names(h1, Len(h1), column_names, FALSE)
    IN  IF r1.kind = "error" THEN r1
        ELSE LET r2 == convert_question_mark_to_nan(r1.heap, r1.df)
             IN  apply_domain_cleaning(r2.heap, r2.df)

(***************************************************************************)
(* create_file_path and load_datasets: the files and pd.read_csv.          *)
(***************************************************************************)
\* f"./{directory}/{file_prefix}.{filename}", kept as its parts
create_file_path(filename, directory, file_prefix) ==
    <<".", directory, file_prefix, filename>>

\* The text read_csv takes for a number, with the number; any other field is text.
Numerals ==
    { <<"2", 2>>, <<"63", 63>>, <<"130", 130>>, <<"145", 145>>, <<"150", 150>>,
      <<"233", 233>> }
IsNumeral(field) == \E p \in Numerals : p[1] = field
ValueOf(field) == (CHOOSE p \in Numerals : p[1] = field)[2]

\* read_csv's default na_values, as far as the files' fields go
IsNA(field) == field \in {"", "NA", "NaN", "nan", "null", "N/A"}

\* One column of the data lines, as read_csv types it: a column whose fields are
\* all numerals (or NA) is numeric; any other column keeps its fields as text.
ParseColumn(lines, j) ==
    LET numeric == \A r \in DOMAIN lines : IsNumeral(lines[r][j]) \/ IsNA(lines[r][j])
    IN  [r \in DOMAIN lines |->
            IF IsNA(lines[r][j]) THEN NaN
            ELSE IF numeric THEN Num(ValueOf(lines[r][j]))
            ELSE Str(lines[r][j])]

\* pd.read_csv(filepath, sep=seperator) with header='infer': the first line gives
\* the column labels, the lines after it the rows.
read_csv(lines) ==
    LET header == Head(lines)
        data == Tail(lines)
    IN  DataFrame(header,
                  [r \in DOMAIN data |-> [j \in DOMAIN header |-> ParseColumn(data, j)[r]]])

\* A loader that catches a failed read and goes on with the next path.
RECURSIVE LoadLoop_skip(_, _, _, _, _, _)
LoadLoop_skip(h, disk, filepaths, dataframes_, reads, k) ==
    IF k > Len(filepaths)
    THEN [ReturnList(h, dataframes_, 0) EXCEPT
            !.reads = reads,
            !.printed = IF Len(dataframes_) = 0
                        THEN <<"No dataframe was loaded. Check the file paths.">>
                        ELSE <<>>]
    ELSE LET filepath == filepaths[k]
             reads1 == Append(reads, filepath)
         IN  IF filepath \notin DOMAIN disk \/ Len(disk[filepath]) = 0
             THEN LoadLoop_skip(h, disk, filepaths, dataframes_, reads1, k + 1)
             ELSE LET h1 == Append(h, read_csv(disk[filepath]))
                  IN  LoadLoop_skip(h1, disk, filepaths, Append(dataframes_, Len(h1)),
                                    reads1, k + 1)

\* for filepath in filepaths, from position k on: read and append, or raise
RECURSIVE LoadLoop(_, _, _, _, _, _)
LoadLoop(h, disk, filepaths, dataframes_, reads, k) ==
    IF k > Len(filepaths)
    THEN [ReturnList(h, dataframes_, 0) EXCEPT
            !.reads = reads,
            !.printed = IF Len(dataframes_) = 0
                        THEN <<"No dataframe was loaded. Check the file paths.">>
                        ELSE <<>>]
    ELSE LET filepath == filepaths[k]
             reads1 == Append(reads, filepath)
         IN  IF filepath \notin DOMAIN disk
             THEN [Raise(h, "FileNotFoundError", 0, 0, "No such file or directory")
                      EXCEPT !.reads = reads1]
             ELSE IF Len(disk[filepath]) = 0
             THEN [Raise(h, "EmptyDataError", 0, 0, "No columns to parse from file")
                      EXCEPT !.reads = reads1]
             ELSE LET h1 == Append(h, read_csv(disk[filepath]))
                  IN  LoadLoop(h1, disk, filepaths, Append(dataframes_, Len(h1)), reads1, k + 1)

\* A loader that puts every table it reads at the front of the list:
\* dataframes.insert(0, df).
load_datasets_prepend(h, disk, filepaths) ==
    LET r == LoadLoop(h, disk, filepaths, <<>>, <<>>, 1)
    IN  [r EXCEPT !.dfs = [i \in DOMAIN r.dfs |-> r.dfs[Len(r.dfs) + 1 - i]]]

load_datasets(h, disk, filepaths) == LoadLoop(h, disk, filepaths, <<>>, <<>>, 1)

(***************************************************************************)
(* add_dataset_identifier: tag a copy of every table with its name.        *)
(***************************************************************************)
\* df[column_name] = value: an existing column is overwritten where it stands,
\* a new one is appended as the last column.
SetItem(t, column_name, value) ==
    IF HasColumn(t, column_name)
    THEN [t EXCEPT !.rows = [r \in DOMAIN t.rows |->
            [c \in DOMAIN t.rows[r] |->
                IF t.columns[c] = column_name THEN value ELSE t.rows[r][c]]]]
    ELSE [t EXCEPT !.columns = Append(t.columns, column_name),
                   !.rows = [r \in DOMAIN t.rows |-> Append(t.rows[r], value)]]

\* one turn of the loop: copy, tag the copy, append it to modified_dfs
TagOne(acc, id, name, column_name) ==
    LET h1 == Copy(acc.heap, id)
        df_copy == Len(h1)
    IN  [heap |-> [h1 EXCEPT ![df_copy] = SetItem(h1[df_copy], column_name, Str(name))],
         modified_dfs |-> Append(acc.modified_dfs, df_copy)]

\* for df, name in zip(dataframes, dataset_names), from position k on
RECURSIVE TagLoop(_, _, _, _, _)
TagLoop(acc, ids, names, column_name, k) ==
    IF k > Len(ids) \/ k > Len(names) THEN acc
    ELSE TagLoop(TagOne(acc, ids[k], names[k], column_name), ids, names, column_name, k + 1)

\* An add_dataset_identifier without the length check: zip stops at the shorter list.
add_dataset_identifier_unchecked(h, ids, names, column_name) ==
    LET acc == TagLoop([heap |-> h, modified_dfs |-> <<>>], ids, names, column_name, 1)
    IN  ReturnList(acc.heap, acc.modified_dfs, 0)


add_dataset_identifier(h, ids, names, column_name) ==
    IF Len(ids) # Len(names)
    THEN Raise(h, "ValueError", Len(ids), Len(names),
               "Number of dataframes must match number of dataset names")
    ELSE LET acc == TagLoop([heap |-> h, modified_dfs |-> <<>>], ids, names, column_name, 1)
         IN  ReturnList(acc.heap, acc.modified_dfs, 0)

(***************************************************************************)
(* combine_datasets: pd.concat(dataframes, ignore_index=reset_index).      *)
(***************************************************************************)
\* the columns of the result: the union, in order of first appearance
RECURSIVE UnionColumns(_, _, _)
UnionColumns(h, ids, k) ==
    IF k = 0 THEN <<>>
    ELSE LET sofar == UnionColumns(h, ids, k - 1)
             new == SelectSeq(h[ids[k]].columns, LAMBDA c : c \notin Range(sofar))
         IN  sofar \o new

\* a row laid out on the result's columns; a column the table lacks is missing
Reindex(t, r, columns) ==
    [j \in DOMAIN columns |->
        IF HasColumn(t, columns[j]) THEN t.rows[r][ColPos(t, columns[j])] ELSE NaN]

RECURSIVE ConcatRows(_, _, _, _)
ConcatRows(h, ids, columns, k) ==
    IF k = 0 THEN <<>>
    ELSE ConcatRows(h, ids, columns, k - 1)
         \o [r \in DOMAIN h[ids[k]].rows |-> Reindex(h[ids[k]], r, columns)]

RECURSIVE ConcatIndex(_, _, _)
ConcatIndex(h, ids, k) ==
    IF k = 0 THEN <<>> ELSE ConcatIndex(h, ids, k - 1) \o h[ids[k]].index

concat(h, ids, ignore_index) ==
    LET columns == UnionColumns(h, ids, Len(ids))
        rows == ConcatRows(h, ids, columns, Len(ids))
    IN  [columns |-> columns,
         index |-> IF ignore_index THEN RangeIndex(Len(rows))
                   ELSE ConcatIndex(h, ids, Len(ids)),
         rows |-> rows]

combine_datasets(h, ids, reset_index) ==
    IF Len(ids) = 0
    THEN Raise(h, "ValueError", 0, 0, "No objects to concatenate")
    ELSE Return(Append(h, concat(h, ids, reset_index)), Len(h) + 1)

(***************************************************************************)
(* prepare_cvd_datasets: paths, load, normalise every table, combine.      *)
(***************************************************************************)
\* [modify_datataset(df, column_names) for df in dfs], from position k on
RECURSIVE ModifyLoop(_, _, _, _, _)
ModifyLoop(h, ids, column_names, out, k) ==
    IF k > Len(ids) THEN ReturnList(h, out, 0)
    ELSE LET r == modify_datataset(h, ids[k], column_names)
         IN  IF r.kind = "error" THEN r
             ELSE ModifyLoop(r.heap, ids, column_names, Append(out, r.df), k + 1)

\* dataset_names is taken and never used.
prepare_cvd_datasets(h, disk, files_, dataset_names_, column_names, directory, file_prefix) ==
    LET filepaths == [i \in DOMAIN files_ |-> create_file_path(files_[i], directory, file_prefix)]
        loaded == load_datasets(h, disk, filepaths)
    IN  IF loaded.kind = "error" THEN loaded
        ELSE LET dfs == ModifyLoop(loaded.heap, loaded.dfs, column_names, <<>>, 1)
             IN  IF dfs.kind = "error"
                 THEN [dfs EXCEPT !.reads = loaded.reads, !.printed = loaded.printed]
                 ELSE LET df_combined == combine_datasets(dfs.heap, dfs.dfs, TRUE)
                      IN  IF df_combined.kind = "error"
                          THEN [df_combined EXCEPT !.reads = loaded.reads,
                                                   !.printed = loaded.printed]
                          ELSE [ReturnList(df_combined.heap, dfs.dfs, df_combined.df)
                                   EXCEPT !.reads = loaded.reads,
                                          !.printed = loaded.printed]

(***************************************************************************)
(* The calls.  The caller holds the DataFrames dataframes[1..n] and calls  *)
(* one function of the module on them; two compositions the callers use    *)
(* are followed one call further.                                          *)
(***************************************************************************)
\* df: the DataFrame argument (0: none); ids: the list argument (for a rename of
\* a loaded table: the table's position in the loaded list).
Args(df, ids, inplace, reset_index) ==
    [df |-> df, ids |-> ids, inplace |-> inplace, reset_index |-> reset_index]

NoRet == [kind |-> "none", df |-> 0, dfs |-> <<>>, err |-> NoErr,
          printed |-> <<>>, reads |-> <<>>]

\* the call's outcome becomes the state
Finish(name, r, args) ==
    /\ heap' = r.heap
    /\ ret' = [kind |-> r.kind, df |-> r.df, dfs |-> r.dfs, err |-> r.err,
               printed |-> r.printed, reads |-> r.reads]
    /\ pc' = name
    /\ call' = args
    /\ UNCHANGED <<before, dataframes, col_names, dataset_names, fs, files>>

CallModifyColumnNames ==
    /\ pc = "start"
    /\ \E i \in DOMAIN dataframes, inplace \in BOOLEAN :
        Finish("modify_column_names",
               modify_column_names(heap, dataframes[i], col_names, inplace),
               Args(dataframes[i], <<>>, inplace, FALSE))

CallConvertQuestionMarkToNan ==
    /\ pc = "start"
    /\ \E i \in DOMAIN dataframes :
        Finish("convert_question_mark_to_nan",
               convert_question_mark_to_nan(heap, dataframes[i]),
               Args(dataframes[i], <<>>, FALSE, FALSE))

\* convert_question_mark_to_nan applied to the table it has just returned
CallConvertAgain ==
    /\ pc = "convert_question_mark_to_nan"
    /\ Finish("convert_again",
              convert_question_mark_to_nan(heap, ret.df),
              Args(ret.df, <<>>, FALSE, FALSE))

CallApplyDomainCleaning ==
    /\ pc = "start"
    /\ \E i \in DOMAIN dataframes :
        Finish("apply_domain_cleaning",
               apply_domain_cleaning(heap, dataframes[i]),
               Args(dataframes[i], <<>>, FALSE, FALSE))

CallModifyDataset ==
    /\ pc = "start"
    /\ \E i \in DOMAIN dataframes :
        Finish("modify_datataset",
               modify_datataset(heap, dataframes[i], col_names),
               Args(dataframes[i], <<>>, FALSE, FALSE))

CallAddDatasetIdentifier ==
    /\ pc = "start"
    /\ Finish("add_dataset_identifier",
              add_dataset_identifier(heap, dataframes, dataset_names, "Dataset"),
              Args(0, dataframes, FALSE, FALSE))

CallCombineDatasets ==
    /\ pc = "start"
    /\ \E reset_index \in BOOLEAN :
        Finish("combine_datasets",
               combine_datasets(heap, dataframes, reset_index),
               Args(0, dataframes, FALSE, reset_index))

\* combine_datasets(add_dataset_identifier(dataframes, dataset_names))
CallCombineTagged ==
    /\ pc = "add_dataset_identifier"
    /\ ret.kind = "ok"
    /\ Finish("combine_tagged",
              combine_datasets(heap, ret.dfs, TRUE),
              Args(0, ret.dfs, FALSE, TRUE))

Next ==
    \/ CallModifyColumnNames
    \/ CallConvertQuestionMarkToNan
    \/ CallConvertAgain
    \/ CallApplyDomainCleaning
    \/ CallModifyDataset
    \/ CallAddDatasetIdentifier
    \/ CallCombineDatasets
    \/ CallCombineTagged

\* The caller of src/load_datasets.py: directory 'data', the default prefix.
DIRECTORY == "data"
FILE_PREFIX == "processed"
FilePaths == [i \in DOMAIN files |-> create_file_path(files[i], DIRECTORY, FILE_PREFIX)]

CallLoadDatasets ==
    /\ pc = "start"
    /\ Finish("load_datasets",
              load_datasets(heap, fs, FilePaths),
              Args(0, <<>>, FALSE, FALSE))

\* modify_column_names(df, col_names) on a table load_datasets has just returned
CallRenameLoaded ==
    /\ pc = "load_datasets"
    /\ ret.kind = "ok"
    /\ \E i \in DOMAIN ret.dfs :
        Finish("rename_loaded",
               modify_column_names(heap, ret.dfs[i], col_names, FALSE),
               Args(ret.dfs[i], <<i>>, FALSE, FALSE))

CallPrepareCvdDatasets ==
    /\ pc = "start"
    /\ Finish("prepare_cvd_datasets",
              prepare_cvd_datasets(heap, fs, files, dataset_names, col_names,
                                   DIRECTORY, FILE_PREFIX),
              Args(0, <<>>, FALSE, FALSE))

NextPipeline ==
    \/ CallLoadDatasets
    \/ CallRenameLoaded
    \/ CallPrepareCvdDatasets

(***************************************************************************)
(* The caller's inputs.                                                    *)
(***************************************************************************)
\* the tables with the given column labels, up to MaxRows rows, cells from a set
Tables(columns, cells) ==
    { DataFrame(columns, rows) :
        rows \in UNION { [1..n -> [1..Len(columns) -> cells]] : n \in 0..MaxRows } }

\* the lists of up to n tables of a set
Lists(S, lo, hi) == UNION { [1..n -> S] : n \in lo..hi }

\* DATASET_NAMES of load_datasets.py
DATASET_NAMES == <<"Cleveland", "Hungarian", "Switzerland", "VA Long Beach">>

\* the first n dataset names (the names cycle once DATASET_NAMES is used up)
FirstNames(n) == [i \in 1..n |-> DATASET_NAMES[((i - 1) % Len(DATASET_NAMES)) + 1]]

\* the caller holds the tables `tables` (a list), one object each
InitWith(tables, names, ds_names) ==
    /\ heap = tables
    /\ before = tables
    /\ dataframes = [i \in DOMAIN tables |-> i]
    /\ col_names = names
    /\ dataset_names = ds_names
    /\ fs = <<>>
    /\ files = <<>>
    /\ pc = "start"
    /\ call = Args(0, <<>>, FALSE, FALSE)
    /\ ret = NoRet

\* One table of one or two columns, any mix of cells.
CellSet == {Num(63), Sentinel, Str("abc"), NaN}
NarrowColumns == {<<"A">>, <<"A", "B">>}
NarrowNames == {<<"C1">>, <<"C1", "C2">>, <<"B", "A">>}

Init ==
    \E columns \in NarrowColumns, names \in NarrowNames, n \in 1..2 :
        \E t \in Tables(columns, CellSet) :
            InitWith(<<t>>, names, FirstNames(n))

Spec == Init /\ [][Next]_vars

\* Lists of up to MaxTables one-column tables; a table may already have a column
\* labelled 'Dataset'.
SmallCells == {Num(1), Num(2)}
SmallColumns == {<<"A">>, <<"Dataset">>}

InitCombine ==
    \E tables \in Lists(UNION { Tables(c, SmallCells) : c \in SmallColumns }, 0, MaxTables) :
        \E n \in 0..(MaxTables + 1) :
            InitWith(tables, <<"C1">>, FirstNames(n))

SpecCombine == InitCombine /\ [][Next]_vars

\* One table of five columns, the range-checked ones or five others; every row
\* is the in-range row with at most one cell changed.
RangeColumns == [k \in DOMAIN range_checks |-> range_checks[k].col]
OtherColumns == <<"c0", "c1", "c2", "c3", "c4">>
BaseRow == [k \in DOMAIN range_checks |-> Num(range_checks[k].min_val)]
WideRows ==
    {BaseRow}
    \cup UNION { { [BaseRow EXCEPT ![k] = v] :
                    v \in {Num(range_checks[k].min_val - 1),
                           Num(range_checks[k].max_val + 1), Sentinel} } :
                  k \in DOMAIN range_checks }
    \cup { [BaseRow EXCEPT ![2] = Str("145")] }
WideTables(columns) ==
    { DataFrame(columns, rows) : rows \in UNION { [1..n -> WideRows] : n \in 0..MaxRows } }
WideNames ==
    { RangeColumns,
      <<"Oldpeak", "Max HR", "Chol", "Rest BP", "Age">>,
      <<"Age", "Sex", "Chol", "Max HR", "Oldpeak">>,
      <<"Age", "Rest BP", "Chol", "Max HR">> }

InitWide ==
    \E columns \in {RangeColumns, OtherColumns}, names \in WideNames :
        \E t \in WideTables(columns) :
            InitWith(<<t>>, names, FirstNames(1))

SpecWide == InitWide /\ [][Next]_vars

\* Files on disk.  FILES of load_datasets.py; each file is missing, or holds up to
\* MaxLines lines of five comma-separated fields (no two fields of a line alike).
FILES == <<"cleveland.data", "hungarian.data", "switzerland.data", "va.data">>
FirstFiles(n) == [i \in 1..n |-> FILES[((i - 1) % Len(FILES)) + 1]]
LinePool ==
    { <<"63", "145", "233", "150", "2">>,
      <<"130", "145", "233", "150", "2">>,
      <<"63", "?", "233", "150", "2">> }
FileContents == UNION { [1..n -> LinePool] : n \in 0..MaxLines }
Disks(paths) ==
    UNION { [present -> FileContents] : present \in SUBSET Range(paths) }

InitPipeline ==
    \E n \in 0..MaxFiles, names \in {RangeColumns, <<"Age", "Rest BP", "Chol", "Max HR">>} :
        \E disk \in Disks([i \in 1..n |-> create_file_path(FirstFiles(n)[i], DIRECTORY, FILE_PREFIX)]) :
            /\ heap = <<>>
            /\ before = <<>>
            /\ dataframes = <<>>
            /\ col_names = names
            /\ dataset_names = FirstNames(n)
            /\ fs = disk
            /\ files = FirstFiles(n)
            /\ pc = "start"
            /\ call = Args(0, <<>>, FALSE, FALSE)
            /\ ret = NoRet

SpecPipeline == InitPipeline /\ [][NextPipeline]_vars

(***************************************************************************)
(* The claims.                                                             *)
(***************************************************************************)
\* the table an object held when the call was entered, and holds now
Was(id) == before[id]
Now(id) == heap[id]
Returned == ret.kind = "ok"
Raised == ret.kind = "error"
HasCell(t, c) == \E r \in DOMAIN t.rows : \E j \in DOMAIN t.rows[r] : t.rows[r][j] = c

\* rows of table k of a list of tables start after this many rows of the result
RECURSIVE RowsBefore(_, _)
RowsBefore(tables, k) ==
    IF k <= 1 THEN 0 ELSE RowsBefore(tables, k - 1) + Shape0(tables[k - 1])
TotalRows(tables) == RowsBefore(tables, Len(tables) + 1)

\* C1: prepare_cvd_datasets returns (tables, combined): every table and the combined
\* table have the columns col_names followed by 'Dataset', every row from the i-th
\* file has Dataset = dataset_names[i], the combined rows are in file order, and no
\* cell is the literal '?'.
C1_PrepareTagsEveryTable ==
    (pc = "prepare_cvd_datasets" /\ Returned) =>
        LET tables == [i \in DOMAIN ret.dfs |-> Now(ret.dfs[i])]
            combined == Now(ret.df)
            tag == Len(col_names) + 1
        IN  /\ Len(tables) = Len(files)
            /\ combined.columns = Append(col_names, "Dataset")
            /\ ~HasCell(combined, Sentinel)
            /\ Shape0(combined) = TotalRows(tables)
            /\ \A i \in DOMAIN tables :
                 /\ tables[i].columns = Append(col_names, "Dataset")
                 /\ ~HasCell(tables[i], Sentinel)
                 /\ \A r \in DOMAIN tables[i].rows :
                      /\ tables[i].rows[r][tag] = Str(dataset_names[i])
                      /\ combined.rows[RowsBefore(tables, i) + r][tag] = Str(dataset_names[i])

\* C2: for any N tables and N names, combine_datasets(add_dataset_identifier(tables,
\* names)) yields a table: its row count is the sum of the inputs' row counts, its
\* index is 0..sum-1, row r of input k is row RowsBefore(k)+r of the result with its
\* cells kept, and its identifier cell is names[k].
C2_TagAndCombine ==
    (pc = "combine_tagged") =>
        /\ Returned
        /\ LET out == Now(ret.df)
               ins == [k \in DOMAIN dataframes |-> Was(dataframes[k])]
           IN  /\ Shape0(out) = TotalRows(ins)
               /\ out.index = RangeIndex(TotalRows(ins))
               /\ HasColumn(out, "Dataset")
               /\ \A k \in DOMAIN ins : \A r \in DOMAIN ins[k].rows :
                    LET row == out.rows[RowsBefore(ins, k) + r]
                    IN  /\ row[ColPos(out, "Dataset")] = Str(dataset_names[k])
                        /\ \A j \in DOMAIN ins[k].columns :
                             ins[k].columns[j] # "Dataset"
                                => row[ColPos(out, ins[k].columns[j])] = ins[k].rows[r][j]

\* C2 on one table at least: the same, for N >= 1.
C2_TagAndCombineNonEmpty ==
    (pc = "combine_tagged" /\ Len(dataframes) >= 1) => C2_TagAndCombine

\* C3: a file of L lines, loaded by load_datasets and renamed by modify_column_names,
\* is a table of exactly L rows: the first line is kept as a data row.
C3_EveryLineIsARow ==
    (pc = "rename_loaded" /\ Returned) =>
        Shape0(Now(ret.df)) = Len(fs[FilePaths[call.ids[1]]])

\* C4: the table apply_domain_cleaning returns shows the out-of-range values: it
\* differs from its input whenever a range-checked column holds a number strictly
\* below min_val or strictly above max_val.
Violations(t) ==
    { <<k, r>> \in (DOMAIN range_checks) \X (DOMAIN t.rows) :
        /\ HasColumn(t, range_checks[k].col)
        /\ LET c == Column(t, range_checks[k].col)[r]
           IN  c.t = "num" /\ (c.n < range_checks[k].min_val \/ c.n > range_checks[k].max_val) }

C4_FlagsAreObservable ==
    (pc = "apply_domain_cleaning" /\ Returned /\ Violations(Was(call.df)) # {})
        => Now(ret.df) # Was(call.df)

\* C5: add_dataset_identifier with lists of different lengths raises the count
\* mismatch error before anything is copied or tagged: no object is created, no
\* input table is changed, nothing is returned.
C5_CountMismatchRaises ==
    (pc = "add_dataset_identifier" /\ Len(dataframes) # Len(dataset_names)) =>
        /\ Raised
        /\ ret.err.type = "ValueError"
        /\ ret.err.key = "Number of dataframes must match number of dataset names"
        /\ ret.dfs = <<>>
        /\ heap = before

C5_Witness ==
    /\ pc = "add_dataset_identifier"
    /\ Len(dataset_names) >= 1
    /\ Len(dataframes) > Len(dataset_names)
    /\ Raised

\* C6: modify_column_names with a name list whose length is not the column count
\* raises an error carrying both counts, for either value of inplace, and the table
\* keeps its column names.
C6_ShapeMismatchRaises ==
    (pc = "modify_column_names" /\ Shape1(Was(call.df)) # Len(col_names)) =>
        /\ Raised
        /\ ret.err.type = "ValueError"
        /\ ret.err.a = Shape1(Was(call.df))
        /\ ret.err.b = Len(col_names)
        /\ ret.df = 0
        /\ Now(call.df) = Was(call.df)
        /\ heap = before

C6_Witness ==
    /\ pc = "modify_column_names"
    /\ call.inplace
    /\ Shape1(Was(call.df)) = 2
    /\ Len(col_names) = 1
    /\ Raised

\* C7: modify_column_names with exactly as many names as columns returns a table
\* with the same rows in the same order, the same cells, and the given names in order.
C7_RenameKeepsRows ==
    (pc = "modify_column_names" /\ Shape1(Was(call.df)) = Len(col_names)) =>
        /\ Returned
        /\ Now(ret.df).columns = col_names
        /\ Now(ret.df).rows = Was(call.df).rows
        /\ Now(ret.df).index = Was(call.df).index

C7_Witness ==
    /\ pc = "modify_column_names"
    /\ Returned
    /\ ~call.inplace
    /\ col_names = <<"B", "A">>
    /\ Was(call.df).columns = <<"A", "B">>
    /\ Shape0(Was(call.df)) = 2
    /\ Was(call.df).rows[1] # Was(call.df).rows[2]

\* C8: after convert_question_mark_to_nan no cell of any column is the sentinel: a
\* cell that was the sentinel is missing, any other cell keeps its value and place.
C8_NoSentinelLeft ==
    (pc = "convert_question_mark_to_nan") =>
        /\ Returned
        /\ LET t == Was(call.df)
               out == Now(ret.df)
           IN  /\ out.columns = t.columns
               /\ out.index = t.index
               /\ DOMAIN out.rows = DOMAIN t.rows
               /\ \A r \in DOMAIN t.rows :
                    /\ DOMAIN out.rows[r] = DOMAIN t.rows[r]
                    /\ \A j \in DOMAIN t.rows[r] :
                         /\ out.rows[r][j] # Sentinel
                         /\ t.rows[r][j] = Sentinel => out.rows[r][j] = NaN
                         /\ t.rows[r][j] # Sentinel => out.rows[r][j] = t.rows[r][j]

C8_Witness ==
    /\ pc = "convert_question_mark_to_nan"
    /\ Returned
    /\ Shape0(Was(call.df)) = 2
    /\ Was(call.df).rows[1] = <<Num(63), Sentinel>>
    /\ Was(call.df).rows[2] = <<Sentinel, Str("abc")>>
    /\ Now(ret.df).rows[1] = <<Num(63), NaN>>

\* C9: convert_question_mark_to_nan is idempotent: applied to the table it
\* returned, it returns an equal table.
C9_ConvertIdempotent ==
    (pc = "convert_again") => (Returned /\ Now(ret.df) = Now(call.df))

C9_Witness ==
    /\ pc = "convert_again"
    /\ Returned
    /\ HasCell(Was(dataframes[1]), Sentinel)
    /\ HasCell(Was(dataframes[1]), NaN)
    /\ Now(call.df) # Was(dataframes[1])

\* C10: when modify_datataset or add_dataset_identifier returns, every table
\* object the caller passed holds the column names and the cells it held.
C10_CallerTablesUntouched ==
    (pc \in {"modify_datataset", "add_dataset_identifier"} /\ Returned) =>
        \A i \in DOMAIN dataframes : Now(dataframes[i]) = Was(dataframes[i])

C10_Witness ==
    /\ pc = "modify_datataset"
    /\ Returned
    /\ Was(call.df).columns = OtherColumns
    /\ HasCell(Was(call.df), Sentinel)
    /\ Now(ret.df).columns = col_names
    /\ ~HasCell(Now(ret.df), Sentinel)

\* a read of the path fails: no file there, or a file with nothing to parse
Unreadable(path) == path \notin DOMAIN fs \/ Len(fs[path]) = 0

\* the position of the first path whose read fails (0: every path is readable)
FirstUnreadable ==
    IF \A i \in DOMAIN FilePaths : ~Unreadable(FilePaths[i]) THEN 0
    ELSE CHOOSE i \in DOMAIN FilePaths :
            /\ Unreadable(FilePaths[i])
            /\ \A j \in 1..(i - 1) : ~Unreadable(FilePaths[j])

\* C11: when load_datasets returns, it returns one table per path, in the order of
\* the paths: result[i] holds the header and the data lines of the file at paths[i];
\* for no paths at all it returns the empty list, raises nothing and prints a warning.
C11_OneTablePerPathInOrder ==
    (pc = "load_datasets") =>
        /\ Returned =>
            /\ Len(ret.dfs) = Len(files)
            /\ ret.reads = FilePaths
            /\ \A i \in DOMAIN ret.dfs :
                 LET lines == fs[FilePaths[i]]
                     t == Now(ret.dfs[i])
                 IN  /\ t.columns = lines[1]
                     /\ Shape0(t) = Len(lines) - 1
                     /\ \A r \in DOMAIN t.rows : \A j \in DOMAIN t.columns :
                          \/ t.rows[r][j] = Str(lines[r + 1][j])
                          \/ /\ IsNumeral(lines[r + 1][j])
                             /\ t.rows[r][j] = Num(ValueOf(lines[r + 1][j]))
        /\ Len(files) = 0 =>
            /\ Returned
            /\ ret.dfs = <<>>
            /\ ret.printed = <<"No dataframe was loaded. Check the file paths.">>

C11_Witness ==
    /\ pc = "load_datasets"
    /\ Returned
    /\ Len(files) = 2
    /\ Shape0(Now(ret.dfs[1])) = 1
    /\ Shape0(Now(ret.dfs[2])) = 0
    /\ Now(ret.dfs[1]).columns # Now(ret.dfs[2]).columns

\* C12: when the read of some path fails, load_datasets and prepare_cvd_datasets
\* raise the read's error and return no table; the paths read are those up to the
\* failing one, each once, and none after it.
C12_LoadFailureAborts ==
    (pc \in {"load_datasets", "prepare_cvd_datasets"} /\ FirstUnreadable # 0) =>
        /\ Raised
        /\ ret.err.type \in {"FileNotFoundError", "EmptyDataError"}
        /\ ret.dfs = <<>>
        /\ ret.df = 0
        /\ ret.reads = SubSeq(FilePaths, 1, FirstUnreadable)

C12_Witness ==
    /\ pc = "prepare_cvd_datasets"
    /\ Len(files) = 2
    /\ FirstUnreadable = 1
    /\ ~Unreadable(FilePaths[2])
    /\ Len(fs[FilePaths[2]]) = 2
    /\ Raised
    /\ ret.reads = <<FilePaths[1]>>

\* C13: modify_datataset returns a table, raising nothing, for every table whose
\* column count is len(column_names), whatever the names and whatever the cells.
C13_ModifyDatasetIsTotal ==
    (pc = "modify_datataset" /\ Shape1(Was(call.df)) = Len(col_names)) => Returned

\* C14: prepare_cvd_datasets with an empty list of files raises nothing and returns
\* an empty list of tables together with an empty combined table.
C14_EmptyInputReturnsEmpty ==
    (pc = "prepare_cvd_datasets" /\ Len(files) = 0) =>
        /\ Returned
        /\ ret.dfs = <<>>
        /\ ret.df # 0
        /\ Shape0(Now(ret.df)) = 0

====
